---------------------------- MODULE Spec2Model ----------------------------
(***************************************************************************)
(* Sparse merkle tree (nervosnetwork/sparse-merkle-tree): the tree engine  *)
(* of src/src/tree.rs, the merge rule of src/src/merge.rs, the key         *)
(* arithmetic of src/src/h256.rs and the proof codec of                    *)
(* src/src/merkle_proof.rs.                                                *)
(*                                                                         *)
(* Scaling.  The program works on 256-bit keys and u8 heights 0..=255.     *)
(* The model keeps the algorithms and scales the width: a key has          *)
(* NumLevels bits, heights run over 0..MaxHeight (MaxHeight stands for     *)
(* core::u8::MAX) and u8 arithmetic wraps modulo NumLevels (for 256).      *)
(* The hash function is modelled as injective and never zero: the digest   *)
(* of a hasher is the sequence of items written to it.                     *)
(***************************************************************************)
EXTENDS Integers, Sequences, FiniteSets, TLC

\* core::u8::MAX, scaled
MaxHeight == 2
\* number of nonzero leaf values the operations draw from
NumValues == 2
\* largest number of nonzero leaves a tree is grown to
MaxLeaves == 3

\* 256: the number of levels of the tree, and the modulus of u8 arithmetic
NumLevels == MaxHeight + 1
Heights == 0..MaxHeight
Keys == 0..((2 ^ NumLevels) - 1)

\* u8 wrapping arithmetic
wrapping_add(a, b) == (a + b) % NumLevels

(***************************************************************************)
(* H256 (src/src/h256.rs).  A key or bitmap is the integer of its bits.    *)
(* A 32-byte word that is compared with digests (a leaf value, a node      *)
(* hash, a root) is either a literal word <<"w", n>> or a digest           *)
(* <<"h", items>>.                                                         *)
(***************************************************************************)
Word(n) == <<"w", n>>
H256_zero == Word(0)
H256_is_zero(h) == h = H256_zero

get_bit(k, i) == (k \div (2 ^ i)) % 2 = 1
set_bit(k, i) == IF get_bit(k, i) THEN k ELSE k + (2 ^ i)
clear_bit(k, i) == IF get_bit(k, i) THEN k - (2 ^ i) ELSE k
is_right(k, height) == get_bit(k, height)
copy_bits(k, start) == (k \div (2 ^ start)) * (2 ^ start)
parent_path(k, height) ==
    IF height = MaxHeight THEN 0 ELSE copy_bits(k, height + 1)
fork_height(a, b) ==
    LET diff == {h \in Heights : get_bit(a, h) # get_bit(b, h)}
    IN  IF diff = {} THEN 0 ELSE CHOOSE h \in diff : \A g \in diff : g <= h

(***************************************************************************)
(* Hasher (src/src/traits.rs): finish() of the items written.              *)
(***************************************************************************)
finish(written) == <<"h", written>>

(***************************************************************************)
(* MergeValue and the merge rule (src/src/merge.rs).                       *)
(***************************************************************************)
MERGE_NORMAL == 1
MERGE_ZEROS == 2

Value(v) == [kind |-> "Value", value |-> v]
MergeWithZero(b, zb, zc) ==
    [kind |-> "MergeWithZero", base_node |-> b, zero_bits |-> zb, zero_count |-> zc]
ShortCut(k, v, h) == [kind |-> "ShortCut", key |-> k, value |-> v, height |-> h]
shortcut(key, value, height) == ShortCut(key, value, height)
is_shortcut(mv) == mv.kind = "ShortCut"

from_h256(v) == Value(v)
zero == Value(H256_zero)

\* is_zero with a slip: a MergeWithZero is never zero
is_zero_value_only(mv) ==
    CASE mv.kind = "Value" -> H256_is_zero(mv.value)
      [] mv.kind = "MergeWithZero" -> FALSE
      [] mv.kind = "ShortCut" -> H256_is_zero(mv.value)

\* MergeValue::is_zero
is_zero(mv) ==
    CASE mv.kind = "Value" -> H256_is_zero(mv.value)
      [] mv.kind = "MergeWithZero" -> H256_is_zero(mv.base_node)
      [] mv.kind = "ShortCut" -> H256_is_zero(mv.value)

hash_base_node(base_height, base_key, base_value) ==
    finish(<<base_height, base_key, base_value>>)

RECURSIVE clear_right_bits(_, _, _)
clear_right_bits(key, zero_bits, i) ==
    IF i > MaxHeight THEN zero_bits
    ELSE clear_right_bits(key,
                          IF is_right(key, i) THEN clear_bit(zero_bits, i) ELSE zero_bits,
                          i + 1)

into_merge_with_zero(mv) ==
    IF mv.kind = "ShortCut"
    THEN MergeWithZero(hash_base_node(0, parent_path(mv.key, 0), mv.value),
                       clear_right_bits(mv.key, mv.key, mv.height),
                       mv.height)
    ELSE mv

hash(mv) ==
    CASE mv.kind = "Value" -> mv.value
      [] mv.kind = "MergeWithZero" ->
            finish(<<MERGE_ZEROS, mv.base_node, mv.zero_bits, mv.zero_count>>)
      [] mv.kind = "ShortCut" ->
            IF H256_is_zero(mv.value) THEN H256_zero
            ELSE LET m == into_merge_with_zero(mv)
                 IN  finish(<<MERGE_ZEROS, m.base_node, m.zero_bits, m.zero_count>>)

\* merge_with_zero with a slip: zero_count is incremented without wrapping
merge_with_zero_no_wrap(height, node_key, value, setbit) ==
    CASE value.kind = "Value" ->
            MergeWithZero(hash_base_node(height, node_key, value.value),
                          IF setbit THEN set_bit(0, height) ELSE 0,
                          1)
      [] value.kind = "MergeWithZero" ->
            MergeWithZero(value.base_node,
                          IF setbit THEN set_bit(value.zero_bits, height)
                                    ELSE value.zero_bits,
                          value.zero_count + 1)
      [] value.kind = "ShortCut" ->
            IF height = MaxHeight
            THEN MergeWithZero(hash_base_node(0, parent_path(value.key, 0), value.value),
                               clear_right_bits(value.key, value.key, height),
                               0)
            ELSE ShortCut(value.key, value.value, height + 1)

merge_with_zero(height, node_key, value, setbit) ==
    CASE value.kind = "Value" ->
            MergeWithZero(hash_base_node(height, node_key, value.value),
                          IF setbit THEN set_bit(0, height) ELSE 0,
                          1)
      [] value.kind = "MergeWithZero" ->
            MergeWithZero(value.base_node,
                          IF setbit THEN set_bit(value.zero_bits, height)
                                    ELSE value.zero_bits,
                          wrapping_add(value.zero_count, 1))
      [] value.kind = "ShortCut" ->
            IF height = MaxHeight
            THEN MergeWithZero(hash_base_node(0, parent_path(value.key, 0), value.value),
                               clear_right_bits(value.key, value.key, height),
                               0)
            ELSE ShortCut(value.key, value.value, height + 1)

merge(height, node_key, lhs, rhs) ==
    IF is_zero(lhs) /\ is_zero(rhs) THEN zero
    ELSE IF is_zero(lhs) THEN merge_with_zero(height, node_key, rhs, TRUE)
    ELSE IF is_zero(rhs) THEN merge_with_zero(height, node_key, lhs, FALSE)
    ELSE Value(finish(<<MERGE_NORMAL, height, node_key, hash(lhs), hash(rhs)>>))

(***************************************************************************)
(* DefaultStore (src/src/default_store.rs): two maps.  A map is a function *)
(* whose domain is the set of keys present.                                *)
(***************************************************************************)
BranchKey(height, node_key) == <<height, node_key>>
BranchNode(l, r) == [left |-> l, right |-> r]
EmptyMap == [x \in {} |-> 0]
MapInsert(m, k, v) == (k :> v) @@ m
MapRemove(m, k) == [x \in (DOMAIN m) \ {k} |-> m[x]]

DefaultStore == [branches_map |-> EmptyMap, leaves_map |-> EmptyMap]

\* Every store operation returns a Result (src/src/traits.rs).  DefaultStore
\* never gives Err.  A store that does is a store with two more fields:
\* fails, the operations <<name, key>> that return Err, and failed, set once
\* one of them was called; the caller's `?` then returns, so the store takes
\* no later write.
FailingStore(st, fails) ==
    [branches_map |-> st.branches_map, leaves_map |-> st.leaves_map,
     fails |-> fails, failed |-> FALSE]
store_failed(st) == "failed" \in DOMAIN st /\ st.failed
store_fails(st, name, k) ==
    "failed" \in DOMAIN st /\ (st.failed \/ <<name, k>> \in st.fails)
store_error(st) == [st EXCEPT !.failed = TRUE]
\* the maps of a store
store_maps(st) == [branches_map |-> st.branches_map, leaves_map |-> st.leaves_map]

has_branch(st, bk) == bk \in DOMAIN st.branches_map
get_branch(st, bk) == st.branches_map[bk]
\* the Result of get_branch(bk), as the store after the call: failed on Err
read_branch(st, bk) ==
    IF store_fails(st, "get_branch", bk) THEN store_error(st) ELSE st
has_leaf(st, k) == k \in DOMAIN st.leaves_map
get_leaf(st, k) == st.leaves_map[k]
insert_branch(st, bk, b) ==
    IF store_fails(st, "insert_branch", bk) THEN store_error(st)
    ELSE [st EXCEPT !.branches_map = MapInsert(@, bk, b)]
\* remove_branch with a slip: the branch stays
remove_branch_keeps(st, bk) == st
remove_branch(st, bk) ==
    IF store_fails(st, "remove_branch", bk) THEN store_error(st)
    ELSE [st EXCEPT !.branches_map = MapRemove(@, bk)]
\* insert_leaf with a slip: a leaf already stored is not overwritten
insert_leaf_first_wins(st, k, v) ==
    IF has_leaf(st, k) THEN st ELSE [st EXCEPT !.leaves_map = MapInsert(@, k, v)]
insert_leaf(st, k, v) ==
    IF store_fails(st, "insert_leaf", k) THEN store_error(st)
    ELSE [st EXCEPT !.leaves_map = MapInsert(@, k, v)]
\* remove_leaf with a slip: the leaf stays
remove_leaf_keeps(st, k) == st
remove_leaf(st, k) ==
    IF store_fails(st, "remove_leaf", k) THEN store_error(st)
    ELSE [st EXCEPT !.leaves_map = MapRemove(@, k)]

(***************************************************************************)
(* SparseMerkleTree (src/src/tree.rs).  A tree is [store, root].           *)
(***************************************************************************)
SparseMerkleTree(r, st) == [store |-> st, root |-> r]
DefaultTree == SparseMerkleTree(H256_zero, DefaultStore)

\* the value type V is H256: to_h256 is the identity
to_h256(v) == v

\* branch_children with a slip: a right child forgets its stored left sibling
branch_children_drops_left(st, parent_branch_key, right_side, current_node) ==
    IF right_side THEN <<zero, current_node>>
    ELSE IF has_branch(st, parent_branch_key)
         THEN <<current_node, get_branch(st, parent_branch_key).right>>
         ELSE <<current_node, zero>>

\* branch_children with a slip: the sibling is read from the child's own side
branch_children_own_side(st, parent_branch_key, right_side, current_node) ==
    IF has_branch(st, parent_branch_key)
    THEN IF right_side
         THEN <<get_branch(st, parent_branch_key).right, current_node>>
         ELSE <<current_node, get_branch(st, parent_branch_key).left>>
    ELSE IF right_side THEN <<zero, current_node>>
                       ELSE <<current_node, zero>>

\* the children (left, right) of the branch above current_node: current_node on
\* its side, the stored sibling (zero without a stored branch) on the other
branch_children(st, parent_branch_key, right_side, current_node) ==
    IF has_branch(st, parent_branch_key)
    THEN IF right_side
         THEN <<get_branch(st, parent_branch_key).left, current_node>>
         ELSE <<current_node, get_branch(st, parent_branch_key).right>>
    ELSE IF right_side THEN <<zero, current_node>>
                       ELSE <<current_node, zero>>

\* store_branch with a slip: an empty branch is written, not removed
store_branch_keeps_empty(st, parent_branch_key, left, right) ==
    insert_branch(st, parent_branch_key, BranchNode(left, right))

\* store_branch with a slip: the children are written in the wrong order
store_branch_swapped(st, parent_branch_key, left, right) ==
    IF ~is_zero(left) \/ ~is_zero(right)
    THEN insert_branch(st, parent_branch_key, BranchNode(right, left))
    ELSE remove_branch(st, parent_branch_key)

\* insert or update branch, remove empty branch
store_branch(st, parent_branch_key, left, right) ==
    IF ~is_zero(left) \/ ~is_zero(right)
    THEN insert_branch(st, parent_branch_key, BranchNode(left, right))
    ELSE remove_branch(st, parent_branch_key)

\* one round of update's loop `for height in 0..=u8::MAX`, then the rest;
\* a store operation that gave Err ends the loop (`?`)
RECURSIVE update_from(_, _, _, _)
update_from(st, height, current_key, current_node) ==
    IF height > MaxHeight \/ store_failed(st)
    THEN [store |-> st, node |-> current_node]
    ELSE LET parent_key == parent_path(current_key, height)
             parent_branch_key == BranchKey(height, parent_key)
             st0 == read_branch(st, parent_branch_key)
             lr == branch_children(st, parent_branch_key,
                                   is_right(current_key, height), current_node)
         IN  IF store_failed(st0) THEN [store |-> st0, node |-> current_node]
             ELSE update_from(store_branch(st, parent_branch_key, lr[1], lr[2]),
                              height + 1, parent_key,
                              merge(height, parent_key, lr[1], lr[2]))

\* update with a slip: a zero value is stored as a leaf
update_stores_zero_leaf(tree, key, value) ==
    LET res == update_from(insert_leaf(tree.store, key, value), 0, key,
                           from_h256(to_h256(value)))
    IN  SparseMerkleTree(hash(res.node), res.store)

\* update with a slip: the root is assigned even when the store gave Err
update_root_on_error(tree, key, value) ==
    LET node == from_h256(to_h256(value))
        st1 == IF ~is_zero(node) THEN insert_leaf(tree.store, key, value)
                                 ELSE remove_leaf(tree.store, key)
        res == update_from(st1, 0, key, node)
    IN  SparseMerkleTree(hash(res.node), res.store)

\* update with a slip: on Err the writes already made are undone
update_rolls_back(tree, key, value) ==
    LET node == from_h256(to_h256(value))
        st1 == IF ~is_zero(node) THEN insert_leaf(tree.store, key, value)
                                 ELSE remove_leaf(tree.store, key)
        res == update_from(st1, 0, key, node)
    IN  IF store_failed(res.store)
        THEN SparseMerkleTree(tree.root, store_error(tree.store))
        ELSE SparseMerkleTree(hash(res.node), res.store)

\* the result is Err when the store of the tree returned has failed, and the
\* root is then the one the tree had
update(tree, key, value) ==
    LET node == from_h256(to_h256(value))
        st1 == IF ~is_zero(node) THEN insert_leaf(tree.store, key, value)
                                 ELSE remove_leaf(tree.store, key)
        res == update_from(st1, 0, key, node)
    IN  IF store_failed(res.store) THEN SparseMerkleTree(tree.root, res.store)
        ELSE SparseMerkleTree(hash(res.node), res.store)

\* build a tree from a store: the root is recomputed from the branch at
\* (u8::MAX, zero key), and is zero without one (src/src/trie_tree.rs)
new_with_store(st) ==
    LET root_branch_key == BranchKey(MaxHeight, 0)
    IN  SparseMerkleTree(
            IF has_branch(st, root_branch_key)
            THEN hash(merge(MaxHeight, 0, get_branch(st, root_branch_key).left,
                            get_branch(st, root_branch_key).right))
            ELSE H256_zero,
            st)

get(tree, key) ==
    IF H256_is_zero(tree.root) THEN H256_zero
    ELSE IF has_leaf(tree.store, key) THEN get_leaf(tree.store, key) ELSE H256_zero

(***************************************************************************)
(* update_all (src/src/tree.rs).  Option<T> is a sequence of length 0 or   *)
(* 1.  delta_tree maps a BranchKey to (Option<MergeValue>,                 *)
(* Option<MergeValue>).                                                    *)
(***************************************************************************)
None == <<>>
Some(x) == <<x>>
is_some(o) == Len(o) = 1
unwrap(o) == o[1]

\* Ord for BranchKey: by height, then by node_key
BranchKey_lt(a, b) == a[1] < b[1] \/ (a[1] = b[1] /\ a[2] < b[2])

\* delta_entry_found with a slip: at height 0 a child that is already filled is
\* kept, so the first pair of a branch wins
delta_entry_found_first_wins(old_left, old_right, height, right_side, leaf_node) ==
    IF height = 0
    THEN IF right_side
         THEN Some(<<old_left, IF is_some(old_right) THEN old_right ELSE Some(leaf_node)>>)
         ELSE Some(<<IF is_some(old_left) THEN old_left ELSE Some(leaf_node), old_right>>)
    ELSE IF ~is_some(old_left) /\ is_some(old_right) /\ right_side
         THEN Some(<<None, None>>)
    ELSE IF is_some(old_left) /\ ~is_some(old_right) /\ ~right_side
         THEN Some(<<None, None>>)
    ELSE None

\* the new entry of a branch key that delta_tree already holds, as Some(entry);
\* None is `break`
delta_entry_found(old_left, old_right, height, right_side, leaf_node) ==
    IF height = 0
    THEN IF right_side THEN Some(<<old_left, Some(leaf_node)>>)
                       ELSE Some(<<Some(leaf_node), old_right>>)
    ELSE IF ~is_some(old_left) /\ is_some(old_right) /\ right_side
         THEN Some(<<None, None>>)
    ELSE IF is_some(old_left) /\ ~is_some(old_right) /\ ~right_side
         THEN Some(<<None, None>>)
    ELSE None

\* delta_entry_new with a slip: above height 0 the stored sibling is dropped
delta_entry_new_forgets_sibling(branch_left, branch_right, height, right_side, leaf_node) ==
    IF height = 0
    THEN IF right_side THEN <<Some(branch_left), Some(leaf_node)>>
                       ELSE <<Some(leaf_node), Some(branch_right)>>
    ELSE <<None, None>>

\* the entry of a branch key that delta_tree does not hold yet, from the
\* children of the stored branch
delta_entry_new(branch_left, branch_right, height, right_side, leaf_node) ==
    IF height = 0
    THEN IF right_side THEN <<Some(branch_left), Some(leaf_node)>>
                       ELSE <<Some(leaf_node), Some(branch_right)>>
    ELSE IF right_side THEN <<Some(branch_left), None>>
                       ELSE <<None, Some(branch_right)>>

\* the loop `for height in 0..=u8::MAX` that enters one leaf into delta_tree;
\* a `break` returns the delta_tree as it is
RECURSIVE delta_from(_, _, _, _, _)
delta_from(st, delta_tree, height, current_key, leaf_node) ==
    IF height > MaxHeight THEN [store |-> st, delta_tree |-> delta_tree]
    ELSE LET parent_key == parent_path(current_key, height)
             parent_branch_key == BranchKey(height, parent_key)
             right_side == is_right(current_key, height)
             go(new) == delta_from(st, MapInsert(delta_tree, parent_branch_key, new),
                                   height + 1, parent_key, leaf_node)
         IN  IF parent_branch_key \in DOMAIN delta_tree
             THEN LET new == delta_entry_found(delta_tree[parent_branch_key][1],
                                               delta_tree[parent_branch_key][2],
                                               height, right_side, leaf_node)
                  IN  IF is_some(new) THEN go(unwrap(new))
                      ELSE [store |-> st, delta_tree |-> delta_tree]
             ELSE LET st0 == read_branch(st, parent_branch_key)
                      branch_left == IF has_branch(st, parent_branch_key)
                                     THEN get_branch(st, parent_branch_key).left
                                     ELSE zero
                      branch_right == IF has_branch(st, parent_branch_key)
                                      THEN get_branch(st, parent_branch_key).right
                                      ELSE zero
                  IN  IF store_failed(st0)
                      THEN [store |-> st0, delta_tree |-> delta_tree]
                      ELSE go(delta_entry_new(branch_left, branch_right, height,
                                              right_side, leaf_node))

\* the loop `for (leaf_key, leaf_value, leaf_node) in leaf_pairs`
RECURSIVE build_delta_tree(_, _, _, _)
build_delta_tree(st, delta_tree, leaves, i) ==
    IF i > Len(leaves) \/ store_failed(st)
    THEN [store |-> st, delta_tree |-> delta_tree]
    ELSE LET leaf_key == leaves[i][1]
             leaf_value == leaves[i][2]
             leaf_node == from_h256(to_h256(leaf_value))
             st1 == IF ~is_zero(leaf_node) THEN insert_leaf(st, leaf_key, leaf_value)
                                           ELSE remove_leaf(st, leaf_key)
             d == IF store_failed(st1) THEN [store |-> st1, delta_tree |-> delta_tree]
                  ELSE delta_from(st1, delta_tree, 0, leaf_key, leaf_node)
         IN  build_delta_tree(d.store, d.delta_tree, leaves, i + 1)

\* the loop `for parent_branch_key in keys`, keys in BTreeMap order;
\* panicked: panic!("children nodes not all filled") or unwrap() of a missing parent
RECURSIVE apply_delta_tree(_, _, _, _)
apply_delta_tree(st, delta_tree, keys, root_node) ==
    IF keys = {} \/ store_failed(st)
    THEN [store |-> st, root_node |-> root_node, panicked |-> FALSE]
    ELSE LET parent_branch_key == CHOOSE a \in keys : \A b \in keys \ {a} : BranchKey_lt(a, b)
             height == parent_branch_key[1]
             node_key == parent_branch_key[2]
             left_opt == delta_tree[parent_branch_key][1]
             right_opt == delta_tree[parent_branch_key][2]
         IN  IF ~(is_some(left_opt) /\ is_some(right_opt))
             THEN [store |-> st, root_node |-> root_node, panicked |-> TRUE]
             ELSE LET left == unwrap(left_opt)
                      right == unwrap(right_opt)
                      st2 == IF ~is_zero(left) \/ ~is_zero(right)
                             THEN insert_branch(st, parent_branch_key, BranchNode(left, right))
                             ELSE remove_branch(st, parent_branch_key)
                      node == merge(height, node_key, left, right)
                  IN  IF store_failed(st2)
                      THEN [store |-> st2, root_node |-> root_node, panicked |-> FALSE]
                      ELSE IF height < MaxHeight
                      THEN LET parent_height == height + 1
                               parent_parent_key == parent_path(node_key, parent_height)
                               pk == BranchKey(parent_height, parent_parent_key)
                           IN  IF pk \notin DOMAIN delta_tree
                               THEN [store |-> st2, root_node |-> root_node, panicked |-> TRUE]
                               ELSE apply_delta_tree(
                                        st2,
                                        [delta_tree EXCEPT ![pk] =
                                            IF is_right(node_key, parent_height)
                                            THEN <<@[1], Some(node)>>
                                            ELSE <<Some(node), @[2]>>],
                                        keys \ {parent_branch_key},
                                        root_node)
                      ELSE apply_delta_tree(st2, delta_tree, keys \ {parent_branch_key}, node)

\* result: the tree, and whether the call panicked (the tree is then as the
\* panic left it, the root unchanged); the result is Err when the store of the
\* tree returned has failed, and the root is then the one the tree had
update_all(tree, leaves) ==
    IF Len(leaves) = 0 THEN [tree |-> tree, panicked |-> FALSE]
    ELSE LET built == build_delta_tree(tree.store, EmptyMap, leaves, 1)
             done == apply_delta_tree(built.store, built.delta_tree,
                                      DOMAIN built.delta_tree, zero)
         IN  IF done.panicked \/ store_failed(done.store)
             THEN [tree |-> SparseMerkleTree(tree.root, done.store),
                   panicked |-> done.panicked]
             ELSE [tree |-> SparseMerkleTree(hash(done.root_node), done.store),
                   panicked |-> FALSE]

\* sequential `update` calls, one per pair of leaves, in list order
RECURSIVE update_each(_, _, _)
update_each(tree, leaves, i) ==
    IF i > Len(leaves) THEN tree
    ELSE update_each(update(tree, leaves[i][1], leaves[i][2]), leaves, i + 1)

(***************************************************************************)
(* merkle_proof (src/src/tree.rs).  A list of keys is a sequence.          *)
(***************************************************************************)
\* 257: the capacity of the fork-height stack
MAX_STACK_SIZE == NumLevels + 1

\* keys.sort_unstable(): ascending, by insertion
RECURSIVE insert_sorted(_, _)
insert_sorted(sorted, k) ==
    IF Len(sorted) = 0 THEN <<k>>
    ELSE IF k < sorted[Len(sorted)]
         THEN Append(insert_sorted(SubSeq(sorted, 1, Len(sorted) - 1), k),
                     sorted[Len(sorted)])
         ELSE Append(sorted, k)

RECURSIVE sort_keys(_)
sort_keys(keys) ==
    IF Len(keys) = 0 THEN <<>>
    ELSE insert_sorted(sort_keys(SubSeq(keys, 1, Len(keys) - 1)), keys[Len(keys)])

\* sibling_of with a slip: the child on current_key's own side is returned
sibling_of_own_side(st, current_key, height) ==
    LET parent_branch_key == BranchKey(height, parent_path(current_key, height))
    IN  IF has_branch(st, parent_branch_key)
        THEN IF is_right(current_key, height)
             THEN Some(get_branch(st, parent_branch_key).right)
             ELSE Some(get_branch(st, parent_branch_key).left)
        ELSE None

\* the sibling of current_key in the stored branch above it, if the branch exists
sibling_of(st, current_key, height) ==
    LET parent_branch_key == BranchKey(height, parent_path(current_key, height))
    IN  IF has_branch(st, parent_branch_key)
        THEN IF is_right(current_key, height)
             THEN Some(get_branch(st, parent_branch_key).left)
             ELSE Some(get_branch(st, parent_branch_key).right)
        ELSE None

\* the bitmap of one key: bit `height` is set when the sibling there is not zero
RECURSIVE leaf_bitmap(_, _, _, _)
leaf_bitmap(st, current_key, height, bitmap) ==
    IF height > MaxHeight THEN bitmap
    ELSE LET sibling == sibling_of(st, current_key, height)
         IN  leaf_bitmap(st, current_key, height + 1,
                         IF is_some(sibling) /\ ~is_zero(unwrap(sibling))
                         THEN set_bit(bitmap, height) ELSE bitmap)

\* the fork height of the leaf at leaf_index with the next one
fork_height_at(keys, leaf_index) ==
    IF leaf_index + 1 <= Len(keys)
    THEN fork_height(keys[leaf_index], keys[leaf_index + 1])
    ELSE MaxHeight

\* the loop `for height in 0..=fork_height` of merkle_proof, for one leaf;
\* w is [proof, stack, panicked]: the siblings collected, the fork-height stack
RECURSIVE proof_heights(_, _, _, _, _, _)
proof_heights(st, keys, leaves_bitmap, leaf_index, height, w) ==
    LET fh == fork_height_at(keys, leaf_index)
        leaf_key == keys[leaf_index]
    IN  IF height > fh \/ w.panicked THEN w
        ELSE IF height = fh /\ leaf_index + 1 <= Len(keys) THEN w
        ELSE IF Len(w.stack) > 0 /\ w.stack[Len(w.stack)] = height
             THEN proof_heights(st, keys, leaves_bitmap, leaf_index, height + 1,
                                [w EXCEPT !.stack = SubSeq(@, 1, Len(@) - 1)])
        ELSE IF get_bit(leaves_bitmap[leaf_index], height)
             THEN LET sibling == sibling_of(st, leaf_key, height)
                  IN  IF ~is_some(sibling)
                      THEN proof_heights(st, keys, leaves_bitmap, leaf_index, height + 1, w)
                      ELSE IF ~is_zero(unwrap(sibling))
                           THEN proof_heights(st, keys, leaves_bitmap, leaf_index,
                                              height + 1,
                                              [w EXCEPT !.proof = Append(@, unwrap(sibling))])
                           ELSE [w EXCEPT !.panicked = TRUE]
        ELSE proof_heights(st, keys, leaves_bitmap, leaf_index, height + 1, w)

\* the loop `while leaf_index < keys.len()` of merkle_proof
RECURSIVE proof_leaves(_, _, _, _, _)
proof_leaves(st, keys, leaves_bitmap, leaf_index, w) ==
    IF leaf_index > Len(keys) \/ w.panicked THEN w
    ELSE LET w1 == proof_heights(st, keys, leaves_bitmap, leaf_index, 0, w)
         IN  IF w1.panicked \/ Len(w1.stack) >= MAX_STACK_SIZE
             THEN [w1 EXCEPT !.panicked = TRUE]
             ELSE proof_leaves(st, keys, leaves_bitmap, leaf_index + 1,
                               [w1 EXCEPT !.stack = Append(@, fork_height_at(keys, leaf_index))])

MerkleProof(leaves_bitmap, merkle_path) ==
    [leaves_bitmap |-> leaves_bitmap, merkle_path |-> merkle_path]

Ok(x) == [ok |-> TRUE, value |-> x]
Err(e) == [ok |-> FALSE, err |-> e]
Panic == [ok |-> FALSE, err |-> "panic"]

\* merkle_proof with a slip: the keys are not sorted
merkle_proof_unsorted(tree, unsorted_keys) ==
    IF Len(unsorted_keys) = 0 THEN Err("EmptyKeys")
    ELSE LET keys == unsorted_keys
             leaves_bitmap == [i \in 1..Len(keys) |-> leaf_bitmap(tree.store, keys[i], 0, 0)]
             w == proof_leaves(tree.store, keys, leaves_bitmap, 1,
                               [proof |-> <<>>, stack |-> <<>>, panicked |-> FALSE])
         IN  IF w.panicked \/ Len(w.stack) # 1 THEN Panic
             ELSE Ok(MerkleProof(leaves_bitmap, w.proof))

merkle_proof(tree, unsorted_keys) ==
    IF Len(unsorted_keys) = 0 THEN Err("EmptyKeys")
    ELSE LET keys == sort_keys(unsorted_keys)
             leaves_bitmap == [i \in 1..Len(keys) |-> leaf_bitmap(tree.store, keys[i], 0, 0)]
             w == proof_leaves(tree.store, keys, leaves_bitmap, 1,
                               [proof |-> <<>>, stack |-> <<>>, panicked |-> FALSE])
         IN  IF w.panicked \/ Len(w.stack) # 1 THEN Panic
             ELSE Ok(MerkleProof(leaves_bitmap, w.proof))

(***************************************************************************)
(* The proof codec (src/src/merkle_proof.rs).  A compiled proof is a       *)
(* sequence of tokens: a byte <<"u8", n>>, or a 32-byte operand, which is  *)
(* one token (a word or a digest).                                         *)
(***************************************************************************)
Byte(n) == <<"u8", n>>
OP_L == 76
OP_P == 80
OP_Q == 81
OP_SHORTCUT == 82
OP_H == 72
OP_O == 79

\* zero_run with a slip: a run of 256 is not written as 0
zero_run_no_wrap(zero_count) ==
    IF zero_count > 0 THEN <<Byte(OP_O), Byte(zero_count)>> ELSE <<>>

\* the bytes `4F n` of a run of zero_count zero siblings (nothing for no run)
zero_run(zero_count) ==
    IF zero_count > 0
    THEN <<Byte(OP_O), Byte(IF zero_count = NumLevels THEN 0 ELSE zero_count)>>
    ELSE <<>>

\* the opcode and operand bytes of a sibling of merkle_path
sibling_code(node) ==
    CASE node.kind = "Value" -> <<Byte(OP_P), node.value>>
      [] node.kind = "MergeWithZero" ->
            <<Byte(OP_Q), Byte(node.zero_count), node.base_node, Word(node.zero_bits)>>
      [] node.kind = "ShortCut" -> <<Byte(OP_SHORTCUT), node.value>>

\* the loop `for height in 0..=fork_height` of compile, for one leaf; c is
\* [proof, stack, merkle_path_index, zero_count, err]
RECURSIVE compile_heights(_, _, _, _, _, _)
compile_heights(leaves_keys, leaves_bitmap, merkle_path, leaf_index, height, c) ==
    LET fh == fork_height_at(leaves_keys, leaf_index)
    IN  IF height > fh \/ c.err # "" THEN c
        ELSE IF height = fh /\ leaf_index + 1 <= Len(leaves_keys) THEN c
        ELSE IF Len(c.stack) > 0 /\ c.stack[Len(c.stack)] = height
             THEN compile_heights(leaves_keys, leaves_bitmap, merkle_path, leaf_index,
                      height + 1,
                      [c EXCEPT !.stack = SubSeq(@, 1, Len(@) - 1),
                                !.proof = @ \o zero_run(c.zero_count) \o <<Byte(OP_H)>>,
                                !.zero_count = 0])
        ELSE IF get_bit(leaves_bitmap[leaf_index], height)
             THEN IF c.merkle_path_index > Len(merkle_path)
                  THEN [c EXCEPT !.err = "CorruptedProof"]
                  ELSE compile_heights(leaves_keys, leaves_bitmap, merkle_path, leaf_index,
                           height + 1,
                           [c EXCEPT !.merkle_path_index = @ + 1,
                                     !.proof = @ \o zero_run(c.zero_count)
                                                 \o sibling_code(merkle_path[c.merkle_path_index]),
                                     !.zero_count = 0])
        ELSE IF c.zero_count + 1 > NumLevels
             THEN [c EXCEPT !.err = "CorruptedProof"]
             ELSE compile_heights(leaves_keys, leaves_bitmap, merkle_path, leaf_index,
                      height + 1, [c EXCEPT !.zero_count = @ + 1])

\* the loop `while leaf_index < leaves_keys.len()` of compile
RECURSIVE compile_leaves(_, _, _, _, _)
compile_leaves(leaves_keys, leaves_bitmap, merkle_path, leaf_index, c) ==
    IF leaf_index > Len(leaves_keys) \/ c.err # "" THEN c
    ELSE LET c0 == [c EXCEPT !.proof = Append(@, Byte(OP_L)), !.zero_count = 0]
             c1 == compile_heights(leaves_keys, leaves_bitmap, merkle_path, leaf_index, 0, c0)
         IN  IF c1.err # "" THEN c1
             ELSE IF Len(c1.stack) >= MAX_STACK_SIZE THEN [c1 EXCEPT !.err = "panic"]
             ELSE compile_leaves(leaves_keys, leaves_bitmap, merkle_path, leaf_index + 1,
                      [c1 EXCEPT !.proof = @ \o zero_run(c1.zero_count),
                                 !.zero_count = 0,
                                 !.stack = Append(@, fork_height_at(leaves_keys, leaf_index))])

\* MerkleProof::compile: Ok(the compiled proof) or Err
compile(proof, unsorted_keys) ==
    IF Len(unsorted_keys) = 0 THEN Err("EmptyKeys")
    ELSE IF Len(unsorted_keys) # Len(proof.leaves_bitmap)
         THEN Err("IncorrectNumberOfLeaves")
    ELSE LET leaves_keys == sort_keys(unsorted_keys)
             c == compile_leaves(leaves_keys, proof.leaves_bitmap, proof.merkle_path, 1,
                                 [proof |-> <<>>, stack |-> <<>>, merkle_path_index |-> 1,
                                  zero_count |-> 0, err |-> ""])
         IN  IF c.err # "" THEN Err(c.err)
             ELSE IF Len(c.stack) # 1 THEN Err("CorruptedProof")
             ELSE IF c.merkle_path_index # Len(proof.merkle_path) + 1
                  THEN Err("CorruptedProof")
             ELSE Ok(c.proof)

(***************************************************************************)
(* CompiledMerkleProof::compute_root_inner and its callbacks.              *)
(* The machine m is [program_index, leaf_index, stack, sub_proof,          *)
(* is_last_merge_zero, err]; indices count from 1; a stack entry is        *)
(* <<height_u16, key, value>>.  cbk is the callback: [extract |-> FALSE]   *)
(* for `|_| Ok(())`, [extract |-> TRUE, sub_keys |-> S] for the closure of *)
(* extract_proof.                                                          *)
(***************************************************************************)
\* the byte of a token; a token that is no byte is no opcode
code_of(tok) == IF tok[1] = "u8" THEN tok[2] ELSE -1
\* H256::from(data) of an operand token
H256_from(tok) == IF tok[1] = "u8" THEN Word(tok[2]) ELSE tok
\* the bitmap of an operand token (the bits of a digest are not modelled)
bits_from(tok) == IF tok[1] = "h" THEN 0 ELSE tok[2]

\* leaves.sort_unstable_by_key(|(k, _v)| *k)
RECURSIVE insert_leaf_sorted(_, _)
insert_leaf_sorted(sorted, kv) ==
    IF Len(sorted) = 0 THEN <<kv>>
    ELSE IF kv[1] < sorted[Len(sorted)][1]
         THEN Append(insert_leaf_sorted(SubSeq(sorted, 1, Len(sorted) - 1), kv),
                     sorted[Len(sorted)])
         ELSE Append(sorted, kv)

RECURSIVE sort_leaves(_)
sort_leaves(leaves) ==
    IF Len(leaves) = 0 THEN <<>>
    ELSE insert_leaf_sorted(sort_leaves(SubSeq(leaves, 1, Len(leaves) - 1)),
                            leaves[Len(leaves)])

NoCallback == [extract |-> FALSE]
ExtractCallback(sub_keys) == [extract |-> TRUE, sub_keys |-> sub_keys]

match_any_sub_key(key, height, sub_keys) ==
    \E sub_key \in sub_keys :
        IF height = 0 THEN key = sub_key ELSE key = parent_path(sub_key, height - 1)

\* sub_proof with its last byte replaced
set_last(sub_proof, n) == [sub_proof EXCEPT ![Len(sub_proof)] = Byte(n)]
last_byte(sub_proof) == code_of(sub_proof[Len(sub_proof)])

\* the closure of extract_proof: one zero sibling joins the current run
callback_zero_sibling(m) ==
    IF m.is_last_merge_zero
    THEN IF last_byte(m.sub_proof) = 0
         THEN [m EXCEPT !.err = "CorruptedProof"]
         ELSE [m EXCEPT !.sub_proof = set_last(@, wrapping_add(last_byte(@), 1))]
    ELSE [m EXCEPT !.sub_proof = @ \o <<Byte(OP_O), Byte(1)>>,
                   !.is_last_merge_zero = TRUE]

\* the closure of extract_proof, arm H with one side included
callback_sibling(m, sibling_value) ==
    CASE sibling_value.kind = "Value" ->
            IF H256_is_zero(sibling_value.value)
            THEN callback_zero_sibling(m)
            ELSE [m EXCEPT !.sub_proof = @ \o <<Byte(OP_P), sibling_value.value>>,
                           !.is_last_merge_zero = FALSE]
      [] sibling_value.kind = "MergeWithZero" ->
            [m EXCEPT !.sub_proof = @ \o <<Byte(OP_Q), Byte(sibling_value.zero_count),
                                          sibling_value.base_node,
                                          Word(sibling_value.zero_bits)>>,
                      !.is_last_merge_zero = FALSE]
      [] sibling_value.kind = "ShortCut" -> m

\* arm O with a slip: a run of zeros is never joined to the run before it
callback_zero_run_no_join(m, n) ==
    [m EXCEPT !.sub_proof = @ \o <<Byte(OP_O), Byte(n)>>,
              !.is_last_merge_zero = TRUE]

\* the closure of extract_proof, arm O
callback_zero_run(m, n) ==
    IF m.is_last_merge_zero
    THEN IF last_byte(m.sub_proof) = 0 \/ last_byte(m.sub_proof) + n > NumLevels
         THEN [m EXCEPT !.err = "CorruptedProof"]
         ELSE [m EXCEPT !.sub_proof = set_last(@, wrapping_add(last_byte(@), n))]
    ELSE [m EXCEPT !.sub_proof = @ \o <<Byte(OP_O), Byte(n)>>,
                   !.is_last_merge_zero = TRUE]

\* callback(ctx): the machine after the callback; ctx.operand holds the operand
\* tokens of P and Q
callback(cbk, m, ctx) ==
    IF ~cbk.extract THEN m
    ELSE CASE ctx.op = "L" ->
                IF ctx.key \in cbk.sub_keys
                THEN [m EXCEPT !.sub_proof = Append(@, Byte(OP_L)),
                               !.is_last_merge_zero = FALSE]
                ELSE m
           [] ctx.op = "P" ->
                IF match_any_sub_key(ctx.key, ctx.height, cbk.sub_keys)
                THEN [m EXCEPT !.sub_proof = @ \o <<Byte(OP_P)>> \o ctx.operand,
                               !.is_last_merge_zero = FALSE]
                ELSE m
           [] ctx.op = "Q" ->
                IF match_any_sub_key(ctx.key, ctx.height, cbk.sub_keys)
                THEN [m EXCEPT !.sub_proof = @ \o <<Byte(OP_Q)>> \o ctx.operand,
                               !.is_last_merge_zero = FALSE]
                ELSE m
           [] ctx.op = "H" ->
                LET key_a_included == match_any_sub_key(ctx.key_a, ctx.height, cbk.sub_keys)
                    key_b_included == match_any_sub_key(ctx.key_b, ctx.height, cbk.sub_keys)
                IN  IF key_a_included /\ key_b_included
                    THEN [m EXCEPT !.sub_proof = Append(@, Byte(OP_H)),
                                   !.is_last_merge_zero = FALSE]
                    ELSE IF key_a_included \/ key_b_included
                         THEN callback_sibling(m, IF key_a_included THEN ctx.value_b
                                                                    ELSE ctx.value_a)
                    ELSE m
           [] ctx.op = "O" ->
                IF match_any_sub_key(ctx.key, ctx.height, cbk.sub_keys)
                THEN callback_zero_run(m, ctx.n)
                ELSE m

fail(m, e) == [m EXCEPT !.err = e]
pop(m) == [m EXCEPT !.stack = SubSeq(@, 1, Len(@) - 1)]
push(m, entry) == [m EXCEPT !.stack = Append(@, entry)]
top(m) == m.stack[Len(m.stack)]

\* merge_sibling with a slip: the entry is always the left child
merge_sibling_left_only(height, key, value, sibling_node) ==
    merge(height, parent_path(key, height), value, sibling_node)

\* the parent of a stack entry merged with a sibling from the proof
merge_sibling(height, key, value, sibling_node) ==
    IF get_bit(key, height)
    THEN merge(height, parent_path(key, height), sibling_node, value)
    ELSE merge(height, parent_path(key, height), value, sibling_node)

\* 0x4C, L: push leaf value
op_L(cbk, m, leaves) ==
    IF m.leaf_index > Len(leaves) THEN fail(m, "CorruptedStack")
    ELSE LET k == leaves[m.leaf_index][1]
             v == leaves[m.leaf_index][2]
             m1 == callback(cbk, m, [op |-> "L", key |-> k])
         IN  IF m1.err # "" THEN m1
             ELSE [push(m1, <<0, k, from_h256(v)>>) EXCEPT !.leaf_index = @ + 1]

\* 0x50 and 0x51, P and Q: hash stack top item with sibling node in proof;
\* len is the number of operand tokens
op_sibling(cbk, m, proof, name, len) ==
    IF Len(m.stack) = 0 THEN fail(m, "CorruptedStack")
    ELSE IF m.program_index + len - 1 > Len(proof) THEN fail(m, "CorruptedProof")
    ELSE LET operand == SubSeq(proof, m.program_index, m.program_index + len - 1)
             sibling_node ==
                 IF name = "P" THEN from_h256(H256_from(operand[1]))
                 ELSE MergeWithZero(H256_from(operand[2]), bits_from(operand[3]),
                                    code_of(operand[1]))
             height_u16 == top(m)[1]
             key == top(m)[2]
             value == top(m)[3]
             m1 == [pop(m) EXCEPT !.program_index = @ + len]
         IN  IF height_u16 > MaxHeight THEN fail(m1, "CorruptedProof")
             ELSE LET m2 == callback(cbk, m1, [op |-> name, key |-> key,
                                               height |-> height_u16, operand |-> operand])
                  IN  IF m2.err # "" THEN m2
                      ELSE push(m2, <<height_u16 + 1, parent_path(key, height_u16),
                                      merge_sibling(height_u16, key, value, sibling_node)>>)

\* 0x48, H: pop 2 items in stack hash them then push the result
op_H(cbk, m) ==
    IF Len(m.stack) < 2 THEN fail(m, "CorruptedStack")
    ELSE LET b == top(m)
             a == top(pop(m))
             m1 == pop(pop(m))
             height == a[1]
         IN  IF a[1] # b[1] THEN fail(m1, "CorruptedProof")
             ELSE IF a[1] > MaxHeight THEN fail(m1, "CorruptedProof")
             ELSE IF parent_path(a[2], height) # parent_path(b[2], height)
                  THEN fail(m1, "CorruptedProof")
             ELSE LET m2 == callback(cbk, m1, [op |-> "H", key_a |-> a[2], key_b |-> b[2],
                                               height |-> height,
                                               value_a |-> a[3], value_b |-> b[3]])
                  IN  IF m2.err # "" THEN m2
                      ELSE push(m2, <<height + 1, parent_path(a[2], height),
                                      IF get_bit(a[2], height)
                                      THEN merge(height, parent_path(a[2], height), b[3], a[3])
                                      ELSE merge(height, parent_path(a[2], height), a[3], b[3])>>)

\* the loop `for idx in 0..zero_count` of O: Ok(<<height_u16, parent_key, value>>)
RECURSIVE merge_zeros(_, _, _, _, _)
merge_zeros(base_height, key, zero_count, idx, acc) ==
    IF idx >= zero_count THEN Ok(acc)
    ELSE IF base_height + idx > MaxHeight THEN Err("CorruptedProof")
    ELSE LET height == base_height + idx
         IN  merge_zeros(base_height, key, zero_count, idx + 1,
                         <<height, parent_path(key, height),
                           merge_sibling(height, key, acc[3], zero)>>)

\* 0x4F, O: hash stack top item with n zero values
op_O(cbk, m, proof) ==
    IF Len(m.stack) = 0 THEN fail(m, "CorruptedStack")
    ELSE IF m.program_index > Len(proof) THEN fail(m, "CorruptedProof")
    ELSE LET n == code_of(proof[m.program_index])
             zero_count == IF n = 0 THEN NumLevels ELSE n
             base_height == top(m)[1]
             key == top(m)[2]
             value == top(m)[3]
             m1 == [pop(m) EXCEPT !.program_index = @ + 1]
         IN  IF base_height > MaxHeight THEN fail(m1, "CorruptedProof")
             ELSE LET m2 == callback(cbk, m1, [op |-> "O", key |-> key,
                                               height |-> base_height, n |-> n])
                      r == merge_zeros(base_height, key, zero_count, 0,
                                       <<base_height, key, value>>)
                  IN  IF m2.err # "" THEN m2
                      ELSE IF ~r.ok THEN fail(m2, r.err)
                      ELSE push(m2, <<r.value[1] + 1, r.value[2], r.value[3]>>)

\* debug_assert!(stack.len() <= MAX_STACK_SIZE) at the end of a round of the
\* loop: a build with debug assertions panics when it fails, a release build
\* goes on; assert_failed records that it failed
debug_assert_stack(m) ==
    IF m.err = "" /\ Len(m.stack) > MAX_STACK_SIZE
    THEN [m EXCEPT !.assert_failed = TRUE]
    ELSE m

\* the loop `while program_index < self.0.len()`
RECURSIVE run(_, _, _, _)
run(cbk, m, proof, leaves) ==
    IF m.err # "" \/ m.program_index > Len(proof) THEN m
    ELSE LET code == code_of(proof[m.program_index])
             m1 == [m EXCEPT !.program_index = @ + 1]
         IN  run(cbk,
                 debug_assert_stack(
                     CASE code = OP_L -> op_L(cbk, m1, leaves)
                       [] code = OP_P -> op_sibling(cbk, m1, proof, "P", 1)
                       [] code = OP_Q -> op_sibling(cbk, m1, proof, "Q", 3)
                       [] code = OP_H -> op_H(cbk, m1)
                       [] code = OP_O -> op_O(cbk, m1, proof)
                       [] OTHER -> fail(m1, "InvalidCode")),
                 proof, leaves)

\* the machine before the first op code: program_index and leaf_index count
\* from 1, the stack is empty
new_machine ==
    [program_index |-> 1, leaf_index |-> 1, stack |-> <<>>,
     sub_proof |-> <<>>, is_last_merge_zero |-> FALSE, err |-> "",
     assert_failed |-> FALSE]

\* compute_root_inner with a slip: leaves left over are not looked for
compute_root_inner_leaves_left(proof, unsorted_leaves, cbk) ==
    LET leaves == sort_leaves(unsorted_leaves)
        m == run(cbk, new_machine, proof, leaves)
    IN  IF m.err # "" THEN m
        ELSE IF Len(m.stack) # 1 THEN fail(m, "CorruptedStack")
        ELSE IF m.stack[1][1] # NumLevels THEN fail(m, "CorruptedProof")
        ELSE m

\* the machine when compute_root_inner returns; err is "" for Ok
compute_root_inner(proof, unsorted_leaves, cbk) ==
    LET leaves == sort_leaves(unsorted_leaves)
        m == run(cbk, new_machine, proof, leaves)
    IN  IF m.err # "" THEN m
        ELSE IF Len(m.stack) # 1 THEN fail(m, "CorruptedStack")
        ELSE IF m.stack[1][1] # NumLevels THEN fail(m, "CorruptedProof")
        ELSE IF m.leaf_index # Len(leaves) + 1 THEN fail(m, "CorruptedProof")
        ELSE m

\* CompiledMerkleProof::compute_root
compute_root(proof, leaves) ==
    LET m == compute_root_inner(proof, leaves, NoCallback)
    IN  IF m.err # "" THEN Err(m.err) ELSE Ok(hash(m.stack[1][3]))

\* CompiledMerkleProof::verify: Ok(TRUE), Ok(FALSE) or Err
verify(proof, r, leaves) ==
    LET calculated_root == compute_root(proof, leaves)
    IN  IF calculated_root.ok THEN Ok(calculated_root.value = r) ELSE calculated_root

\* CompiledMerkleProof::extract_proof; all_leaves is a sequence of
\* <<key, value, included>>
extract_proof(proof, all_leaves) ==
    LET leaves == [i \in 1..Len(all_leaves) |-> <<all_leaves[i][1], all_leaves[i][2]>>]
        sub_keys == {all_leaves[i][1] : i \in {j \in 1..Len(all_leaves) : all_leaves[j][3]}}
        m == compute_root_inner(proof, leaves, ExtractCallback(sub_keys))
    IN  IF m.err # "" THEN Err(m.err) ELSE Ok(m.sub_proof)

(***************************************************************************)
(* The trie variant (src/src/trie_tree.rs): a subtree with one leaf is     *)
(* stored as a ShortCut in the branch above it.                            *)
(***************************************************************************)
\* fork_branch with a slip: the two leaves are written as plain values at
\* every height
fork_branch_values(key, value_h256, this_key, value, last_height) ==
    IF is_right(key, last_height)
    THEN BranchNode(from_h256(value), from_h256(value_h256))
    ELSE BranchNode(from_h256(value_h256), from_h256(value))

\* the branch written when the walk meets the shortcut of another key: both
\* leaves move down to the height where their keys fork
fork_branch(key, value_h256, this_key, value, last_height) ==
    IF is_right(key, last_height)
    THEN IF last_height # 0
         THEN BranchNode(shortcut(this_key, value, last_height),
                         shortcut(key, value_h256, last_height))
         ELSE BranchNode(from_h256(value), from_h256(value_h256))
    ELSE IF last_height # 0
         THEN BranchNode(shortcut(key, value_h256, last_height),
                         shortcut(this_key, value, last_height))
         ELSE BranchNode(from_h256(value_h256), from_h256(value))

\* the loop that walks from top to bottom; the result is the store and the
\* height the walk stopped at
RECURSIVE walk_down(_, _, _, _, _)
walk_down(st, key, value_h256, node, last_height) ==
    LET node_key == parent_path(key, last_height)
        branch_key == BranchKey(last_height, node_key)
        right_side == is_right(key, last_height)
        stop(st1, h) == [store |-> st1, last_height |-> h]
        side(another, target) ==
            IF right_side THEN BranchNode(another, target)
                          ELSE BranchNode(target, another)
    IN  IF has_branch(st, branch_key)
        THEN LET branch == get_branch(st, branch_key)
                 target == IF right_side THEN branch.right ELSE branch.left
                 another == IF right_side THEN branch.left ELSE branch.right
             IN  IF is_shortcut(target)
                 THEN IF target.key = key
                      THEN IF H256_is_zero(value_h256) /\ is_zero(another)
                           THEN stop(remove_branch(st, branch_key), last_height)
                           ELSE stop(insert_branch(st, branch_key,
                                        side(another,
                                             IF H256_is_zero(value_h256)
                                             THEN from_h256(value_h256)
                                             ELSE shortcut(key, value_h256, target.height))),
                                     last_height)
                      ELSE IF ~H256_is_zero(value_h256)
                           THEN LET fork == fork_height(target.key, key)
                                IN  stop(insert_branch(st,
                                            BranchKey(fork, parent_path(target.key, fork)),
                                            fork_branch(key, value_h256, target.key,
                                                        target.value, fork)),
                                         fork)
                           ELSE stop(st, last_height)
                 ELSE IF is_zero(target) \/ last_height = 0
                      THEN stop(insert_branch(st, branch_key,
                                   side(another,
                                        IF last_height = 0 \/ is_zero(node) THEN node
                                        ELSE shortcut(key, value_h256, last_height))),
                                last_height)
                      ELSE walk_down(st, key, value_h256, node, last_height - 1)
        ELSE IF ~is_zero(node)
             THEN stop(insert_branch(st, branch_key,
                          side(zero, IF last_height # 0
                                     THEN shortcut(key, value_h256, last_height)
                                     ELSE node)),
                       last_height)
             ELSE IF last_height # 0
                  THEN walk_down(st, key, value_h256, node, last_height - 1)
                  ELSE stop(st, last_height)

\* the loop `for height in last_height..=u8::MAX` that updates the hashes
\* from the insert position to the top; the result is the store and the root
RECURSIVE rehash_up(_, _, _)
rehash_up(st, key, height) ==
    LET node_key == parent_path(key, height)
        branch_key == BranchKey(height, node_key)
        new_merge == IF has_branch(st, branch_key)
                     THEN merge(height, node_key, get_branch(st, branch_key).left,
                                get_branch(st, branch_key).right)
                     ELSE zero
    IN  IF height = MaxHeight
        THEN [store |-> st, root |-> hash(new_merge)]
        ELSE LET parent_key == parent_path(key, height + 1)
                 parent_branch_key == BranchKey(height + 1, parent_key)
                 st1 == IF is_shortcut(new_merge) THEN remove_branch(st, branch_key)
                                                  ELSE st
                 st2 == IF has_branch(st1, parent_branch_key)
                        THEN LET parent_branch == get_branch(st1, parent_branch_key)
                                 left == IF is_right(key, height + 1)
                                         THEN parent_branch.left ELSE new_merge
                                 right == IF is_right(key, height + 1)
                                          THEN new_merge ELSE parent_branch.right
                             IN  IF is_zero(left) /\ is_zero(right)
                                 THEN remove_branch(st1, parent_branch_key)
                                 ELSE insert_branch(st1, parent_branch_key,
                                                    BranchNode(left, right))
                        ELSE IF ~is_zero(new_merge)
                             THEN insert_branch(st1, parent_branch_key,
                                     IF is_right(key, height + 1)
                                     THEN BranchNode(zero, new_merge)
                                     ELSE BranchNode(new_merge, zero))
                             ELSE st1
             IN  rehash_up(st2, key, height + 1)

\* SparseMerkleTree::update of the trie variant
trie_update(tree, key, value) ==
    LET value_h256 == to_h256(value)
        node == from_h256(value_h256)
        st1 == IF ~is_zero(node) THEN insert_leaf(tree.store, key, value)
                                 ELSE remove_leaf(tree.store, key)
        walked == walk_down(st1, key, value_h256, node, MaxHeight)
        done == rehash_up(walked.store, key, walked.last_height)
    IN  SparseMerkleTree(done.root, done.store)

(***************************************************************************)
(* State.  store and root are the tree.  last records the last operation   *)
(* (its inputs, and the tree it was applied to when `pre` is kept).        *)
(* written is the abstract map: the value last written to each key, zero   *)
(* for a key never written.  trie is a tree of the trie variant, given the *)
(* same updates as the tree under SpecTrie and left empty elsewhere.       *)
(***************************************************************************)
VARIABLES store, root, last, written, trie

vars == <<store, root, last, written, trie>>

\* longest list given to update_all
MaxBatch == 3

Tree == SparseMerkleTree(root, store)
Values == {Word(n) : n \in 0..NumValues}
\* the values of the pairs of a batch: zero and one nonzero value
BatchValues == {Word(0), Word(1)}
NoOp == [op |-> "none"]

SeqsUpTo(S, n) == UNION {[1..m -> S] : m \in 0..n}
leaf_count(tree) == Cardinality(DOMAIN tree.store.leaves_map)

RECURSIVE write_each(_, _, _)
write_each(w, leaves, i) ==
    IF i > Len(leaves) THEN w
    ELSE write_each([w EXCEPT ![leaves[i][1]] = leaves[i][2]], leaves, i + 1)

Init ==
    /\ store = DefaultStore
    /\ root = H256_zero
    /\ last = NoOp
    /\ written = [k \in Keys |-> H256_zero]
    /\ trie = DefaultTree

\* the tree grows while it holds fewer than MaxLeaves leaves
MayWrite(key, value) ==
    \/ H256_is_zero(value)
    \/ has_leaf(store, key)
    \/ leaf_count(Tree) < MaxLeaves

\* tree.update(key, value); keep_pre: last keeps the tree the call was applied to
Update(key, value, keep_pre) ==
    /\ last.op \notin {"update_all", "merkle_proof"}
    /\ MayWrite(key, value)
    /\ LET t == update(Tree, key, value)
       IN  /\ store' = t.store
           /\ root' = t.root
    /\ written' = [written EXCEPT ![key] = value]
    /\ last' = IF keep_pre
               THEN [op |-> "update", key |-> key, value |-> value, pre |-> Tree]
               ELSE NoOp
    /\ UNCHANGED trie

\* the list writes some key twice, with different values
repeats_key(leaves) ==
    \E i, j \in 1..Len(leaves) :
        i < j /\ leaves[i][1] = leaves[j][1] /\ leaves[i][2] # leaves[j][2]

\* the list sets a key of the tree to zero
deletes_leaf(tree, leaves) ==
    \E i \in 1..Len(leaves) :
        has_leaf(tree.store, leaves[i][1]) /\ H256_is_zero(leaves[i][2])

\* tree.update_all(leaves), once, on a tree built by updates that may still
\* grow.  last keeps what the list was like and `expect`, the root that one
\* update per pair gives from the same tree
UpdateAll(leaves) ==
    /\ last.op # "update_all"
    /\ leaf_count(Tree) < MaxLeaves
    /\ LET r == update_all(Tree, leaves)
       IN  /\ store' = r.tree.store
           /\ root' = r.tree.root
           /\ last' = [op |-> "update_all", len |-> Len(leaves),
                       repeats |-> repeats_key(leaves),
                       deletes |-> deletes_leaf(Tree, leaves),
                       pre_leaves |-> leaf_count(Tree),
                       expect |-> update_each(Tree, leaves, 1).root,
                       panicked |-> r.panicked]
    /\ written' = write_each(written, leaves, 1)
    /\ UNCHANGED trie

\* the leaves (key, get(key)) of a list of keys
leaves_of(tree, keys) == [i \in 1..Len(keys) |-> <<keys[i], get(tree, keys[i])>>]

\* tree.merkle_proof(keys) and compile(keys) of its result, once, on a tree
\* built by updates; last keeps the keys in ascending order and both results
Prove(keys) ==
    /\ last.op \notin {"update_all", "merkle_proof"}
    /\ LET p == merkle_proof(Tree, keys)
       IN  last' = [op |-> "merkle_proof", keys |-> sort_keys(keys), proof |-> p,
                    compiled |-> IF p.ok THEN compile(p.value, keys) ELSE p]
    /\ UNCHANGED <<store, root, written, trie>>

\* tree.update_all(leaves) among other calls
UpdateAllMixed(leaves) ==
    /\ LET r == update_all(Tree, leaves)
       IN  /\ ~r.panicked
           /\ leaf_count(r.tree) <= MaxLeaves
           /\ store' = r.tree.store
           /\ root' = r.tree.root
    /\ written' = write_each(written, leaves, 1)
    /\ last' = [op |-> "update_all_mixed", len |-> Len(leaves),
                deletes |-> deletes_leaf(Tree, leaves)]
    /\ UNCHANGED trie

\* single updates, each applied to a tree reached by updates
Next ==
    \E key \in Keys, value \in Values : Update(key, value, TRUE)

Spec == Init /\ [][Next]_vars

\* a tree built by updates, then one update_all
NextBatch ==
    \/ \E key \in Keys, value \in BatchValues : Update(key, value, FALSE)
    \/ \E n \in 0..MaxBatch :
          \E leaves \in [1..n -> Keys \X BatchValues] : UpdateAll(leaves)

SpecBatch == Init /\ [][NextBatch]_vars

\* update and update_all calls in any order
NextMixed ==
    \/ \E key \in Keys, value \in BatchValues : Update(key, value, FALSE)
    \/ \E n \in 0..(MaxBatch - 1) :
          \E leaves \in [1..n -> Keys \X BatchValues] : UpdateAllMixed(leaves)

SpecMixed == Init /\ [][NextMixed]_vars

\* the keys written under SpecLeaves
LeafKeys == {0, 1, 2, 7}

\* update and update_all calls in any order, with two nonzero values
NextLeaves ==
    \/ \E key \in LeafKeys, value \in Values : Update(key, value, FALSE)
    \/ \E n \in 0..(MaxBatch - 1) :
          \E leaves \in [1..n -> LeafKeys \X Values] : UpdateAllMixed(leaves)

SpecLeaves == Init /\ [][NextLeaves]_vars

\* the store operations that may return Err: one name and one key
StoreOps ==
    ({"get_branch", "insert_branch", "remove_branch"}
        \X {BranchKey(h, parent_path(k, h)) : h \in Heights, k \in Keys})
    \cup ({"insert_leaf", "remove_leaf"} \X Keys)

\* tree.update(key, value) on a store whose operation err returns Err.  The
\* maps stay as the call left them; after an Err no further call is made
UpdateFailing(key, value, err) ==
    /\ last.op # "store_error"
    /\ MayWrite(key, value)
    /\ LET t == update(SparseMerkleTree(root, FailingStore(store, {err})), key, value)
       IN  /\ store' = store_maps(t.store)
           /\ root' = t.root
           /\ written' = IF store_failed(t.store) THEN written
                         ELSE [written EXCEPT ![key] = value]
           /\ last' = IF store_failed(t.store)
                      THEN [op |-> "store_error", call |-> "update", err |-> err,
                            root_before |-> root,
                            changed |-> store_maps(t.store) # store,
                            key |-> key, value |-> value, old |-> get(Tree, key)]
                      ELSE NoOp
    /\ UNCHANGED trie

\* tree.update_all(leaves) on a store whose operation err returns Err
UpdateAllFailing(leaves, err) ==
    /\ last.op # "store_error"
    /\ LET r == update_all(SparseMerkleTree(root, FailingStore(store, {err})), leaves)
       IN  /\ ~r.panicked
           /\ leaf_count(r.tree) <= MaxLeaves
           /\ store' = store_maps(r.tree.store)
           /\ root' = r.tree.root
           /\ written' = IF store_failed(r.tree.store) THEN written
                         ELSE write_each(written, leaves, 1)
           /\ last' = IF store_failed(r.tree.store)
                      THEN [op |-> "store_error", call |-> "update_all", err |-> err,
                            root_before |-> root,
                            changed |-> store_maps(r.tree.store) # store]
                      ELSE NoOp
    /\ UNCHANGED trie

\* update and update_all calls on a store one of whose operations fails
NextFailing ==
    \/ \E key \in LeafKeys, value \in BatchValues, err \in StoreOps :
          UpdateFailing(key, value, err)
    \/ \E n \in 0..(MaxBatch - 1) :
          \E leaves \in [1..n -> LeafKeys \X BatchValues], err \in StoreOps :
              UpdateAllFailing(leaves, err)

SpecFailing == Init /\ [][NextFailing]_vars

\* tree.update(key, value) on the tree and on the trie variant; last keeps
\* whether the call wrote zero to a key that held a leaf
TrieUpdate(key, value) ==
    /\ MayWrite(key, value)
    /\ LET t == update(Tree, key, value)
       IN  /\ store' = t.store
           /\ root' = t.root
    /\ trie' = trie_update(trie, key, value)
    /\ written' = [written EXCEPT ![key] = value]
    /\ last' = [op |-> "trie_update", key |-> key,
                deleted |-> H256_is_zero(value) /\ has_leaf(store, key)]

\* the same update calls on both variants
NextTrie ==
    \E key \in Keys, value \in BatchValues : TrieUpdate(key, value)

SpecTrie == Init /\ [][NextTrie]_vars

\* inserts only: each call writes a nonzero value to a key never written
NextTrieInsert ==
    \E key \in Keys, value \in Values :
        /\ ~H256_is_zero(value)
        /\ H256_is_zero(written[key])
        /\ TrieUpdate(key, value)

SpecTrieInsert == Init /\ [][NextTrieInsert]_vars

\* the nonzero values merge is given: a nonzero leaf value, or a
\* MergeWithZero of any bits and count
MergeInputs ==
    {from_h256(Word(n)) : n \in 1..NumValues}
    \cup {MergeWithZero(Word(n), zb, zc) : n \in 1..NumValues, zb \in Keys, zc \in Heights}

\* a value at a height under a key, before any merge.  from_leaf: the value
\* is the leaf of key, so that merges with zero along key are the path of a
\* lone leaf to the root
InitMerge ==
    /\ store = DefaultStore
    /\ root = H256_zero
    /\ written = [k \in Keys |-> H256_zero]
    /\ trie = DefaultTree
    /\ \E key \in Keys, height \in Heights, node \in MergeInputs :
          last = [op |-> "merge_input", key |-> key, height |-> height,
                  node |-> node, leaf |-> node, len |-> 0,
                  from_leaf |-> height = 0 /\ node.kind = "Value"]

\* merge(height, parent key, lhs, rhs) of the value with one zero sibling,
\* the zero on the left or on the right; the result is the value one height up
MergeZero(zero_left) ==
    /\ last.op \in {"merge_input", "merge"}
    /\ last.height <= MaxHeight
    /\ LET parent_key == parent_path(last.key, last.height)
       IN  last' = [op |-> "merge", key |-> last.key, height |-> last.height + 1,
                    node |-> IF zero_left
                             THEN merge(last.height, parent_key, zero, last.node)
                             ELSE merge(last.height, parent_key, last.node, zero),
                    prev |-> last.node, zero_left |-> zero_left,
                    leaf |-> last.leaf, len |-> last.len + 1,
                    from_leaf |-> last.from_leaf
                                    /\ zero_left = is_right(last.key, last.height)]
    /\ UNCHANGED <<store, root, written, trie>>

NextMerge == \E zero_left \in BOOLEAN : MergeZero(zero_left)

SpecMerge == InitMerge /\ [][NextMerge]_vars

\* most keys a proof is asked for
MaxProofKeys == 3

\* the lists of distinct keys, in every order
KeyLists(n) ==
    {keys \in SeqsUpTo(Keys, n) :
        /\ Len(keys) > 0
        /\ \A i, j \in 1..Len(keys) : i # j => keys[i] # keys[j]}

\* a tree built by updates, then one proof
NextProof ==
    \/ \E key \in Keys, value \in BatchValues : Update(key, value, FALSE)
    \/ \E keys \in KeyLists(MaxProofKeys) : Prove(keys)

SpecProof == Init /\ [][NextProof]_vars

\* a tree built by updates, then one proof of any non-empty list of keys,
\* repeated keys included
NextProofAny ==
    \/ \E key \in Keys, value \in BatchValues : Update(key, value, FALSE)
    \/ \E n \in 1..MaxProofKeys : \E keys \in [1..n -> Keys] : Prove(keys)

SpecProofAny == Init /\ [][NextProofAny]_vars

\* longest byte code given to the interpreter
MaxProgram == 5

\* the bytes of a program: the five op codes and the bytes 0..MaxHeight, which
\* are operands where an operand is read and unknown op codes elsewhere
ProgramTokens ==
    {Byte(OP_L), Byte(OP_P), Byte(OP_Q), Byte(OP_H), Byte(OP_O)}
        \cup {Byte(n) : n \in 0..MaxHeight}

\* the keys of the leaves given with a program: neighbours, or keys of which
\* the first two are no siblings
ProgramKeys == {<<0, 1, 2, 3, 4>>, <<0, 2, 3, 5, 6>>}

\* the leaves given with a program: the first n keys of a list of keys, all
\* values nonzero or every second value zero
ProgramLeaves ==
    {[i \in 1..n |-> <<keys[i], Word(IF alternate THEN i % 2 ELSE 1)>>] :
        n \in 0..MaxProgram, keys \in ProgramKeys, alternate \in BOOLEAN}

\* a byte string and a list of leaves, any of them
InitVerify ==
    /\ store = DefaultStore
    /\ root = H256_zero
    /\ written = [k \in Keys |-> H256_zero]
    /\ trie = DefaultTree
    /\ \E n \in 0..MaxProgram :
         \E proof \in [1..n -> ProgramTokens] :
           \E leaves \in ProgramLeaves :
             last = [op |-> "program", proof |-> proof, leaves |-> leaves]

\* CompiledMerkleProof(proof).compute_root(leaves); m is the machine when
\* compute_root_inner returns
Interpret ==
    /\ last.op = "program"
    /\ last' = [op |-> "compute_root", proof |-> last.proof, leaves |-> last.leaves,
                m |-> compute_root_inner(last.proof, last.leaves, NoCallback)]
    /\ UNCHANGED <<store, root, written, trie>>

NextVerify == Interpret

SpecVerify == InitVerify /\ [][NextVerify]_vars

(***************************************************************************)
(* Properties.                                                             *)
(***************************************************************************)

\* C1 (SpecBatch): update_all(L) returns the root that one update per pair of
\* L, in list order, gives from the same tree; L may repeat a key and may
\* hold zero values.
BatchEquivalence ==
    last.op = "update_all" => (~last.panicked /\ root = last.expect)

\* update_all has acted on a tree of two leaves, with a list of three pairs
\* that writes a key twice and deletes a leaf
BatchEquivalenceWitness ==
    /\ last.op = "update_all"
    /\ last.len >= 3 /\ last.repeats /\ last.deletes /\ last.pre_leaves >= 2
    /\ ~last.panicked /\ root = last.expect /\ ~H256_is_zero(root)

\* the root of the tree that holds the nonzero values of w, its keys
\* inserted into the empty tree in ascending order
RECURSIVE insert_ascending(_, _, _)
insert_ascending(tree, w, key) ==
    IF key \notin DOMAIN w THEN tree
    ELSE insert_ascending(IF H256_is_zero(w[key]) THEN tree ELSE update(tree, key, w[key]),
                          w, key + 1)

\* C6 (Spec): the root does not depend on the order of the updates: whatever
\* order the pairs were written in, the root is the one that inserting the
\* nonzero pairs in ascending key order gives.
OrderIndependence ==
    root = insert_ascending(DefaultTree, written, 0).root

\* three leaves, the last of them inserted below a key inserted before it
OrderIndependenceWitness ==
    /\ last.op = "update" /\ ~H256_is_zero(last.value)
    /\ leaf_count(last.pre) = 2 /\ leaf_count(Tree) = 3
    /\ \E k \in DOMAIN last.pre.store.leaves_map : last.key < k
    /\ root = insert_ascending(DefaultTree, written, 0).root

\* C7 (Spec): after update(k, v) of an absent key k with a nonzero v,
\* update(k, zero) gives back the root, the branch map and the leaf map the
\* tree had before the insert.
DeleteCancelsInsert ==
    (/\ last.op = "update" /\ ~H256_is_zero(last.value)
     /\ ~has_leaf(last.pre.store, last.key))
    => update(Tree, last.key, H256_zero) = last.pre

\* an absent key has been inserted next to its sibling leaf, in a tree of two
\* leaves
DeleteCancelsInsertWitness ==
    /\ last.op = "update" /\ ~H256_is_zero(last.value)
    /\ ~has_leaf(last.pre.store, last.key)
    /\ leaf_count(last.pre) = 2
    /\ \E k \in DOMAIN last.pre.store.leaves_map : fork_height(k, last.key) = 0
    /\ Tree # last.pre
    /\ update(Tree, last.key, H256_zero) = last.pre

\* C8 (Spec): update(k, zero) of a key k that is absent from the tree leaves
\* the root, the branch map and the leaf map unchanged.
EmptyValueNeutrality ==
    (/\ last.op = "update" /\ H256_is_zero(last.value)
     /\ ~has_leaf(last.pre.store, last.key))
    => Tree = last.pre

\* zero has been written to an absent key of a tree of three leaves
EmptyValueNeutralityWitness ==
    /\ last.op = "update" /\ H256_is_zero(last.value)
    /\ ~has_leaf(last.pre.store, last.key)
    /\ leaf_count(last.pre) = 3
    /\ Tree = last.pre

\* C9 (Spec): a second update(k, v) right after update(k, v) leaves the root,
\* the branch map and the leaf map as the first one left them.
IdempotentReinsertion ==
    last.op = "update" => update(Tree, last.key, last.value) = Tree

\* a key has been given a new nonzero value next to its sibling leaf
IdempotentReinsertionWitness ==
    /\ last.op = "update" /\ ~H256_is_zero(last.value)
    /\ Tree # last.pre
    /\ \E k \in DOMAIN last.pre.store.leaves_map : fork_height(k, last.key) = 0 /\ k # last.key
    /\ update(Tree, last.key, last.value) = Tree

\* C10 (SpecMixed): after any update and update_all calls, get(k) is the
\* value last written to k, zero for a key never written or last written with
\* zero.
GetReturnsLastWritten ==
    \A k \in Keys : get(Tree, k) = written[k]

\* an update_all has deleted a leaf and left a leaf whose sibling key is absent
GetReturnsLastWrittenWitness ==
    /\ last.op = "update_all_mixed" /\ last.deletes
    /\ \E k, s \in Keys :
          /\ fork_height(k, s) = 0 /\ k # s
          /\ ~H256_is_zero(get(Tree, k)) /\ H256_is_zero(get(Tree, s))
    /\ \A k \in Keys : get(Tree, k) = written[k]


\* the list in reverse order
reversed(s) == [i \in 1..Len(s) |-> s[Len(s) + 1 - i]]

\* the list with its i-th pair replaced
with_leaf(leaves, i, pair) == [leaves EXCEPT ![i] = pair]

\* the elements of s at the positions of mask, in order
RECURSIVE pick(_, _, _)
pick(s, mask, i) ==
    IF i > Len(s) THEN <<>>
    ELSE (IF i \in mask THEN <<s[i]>> ELSE <<>>) \o pick(s, mask, i + 1)

\* C2 (SpecProof): for every non-empty list K of distinct keys, present or
\* absent, merkle_proof(K) and its compile succeed, and the compiled proof
\* verifies against the root with the pairs (k, get(k)) of K, given in any
\* order; the empty tree included.
ProofRoundTrip ==
    last.op = "merkle_proof" =>
        /\ last.proof.ok
        /\ last.compiled.ok
        /\ verify(last.compiled.value, root,
                  reversed(leaves_of(Tree, last.keys))) = Ok(TRUE)

\* a proof of three keys, present and absent ones, of a tree of three leaves
\* has verified
ProofRoundTripWitness ==
    /\ last.op = "merkle_proof" /\ Len(last.keys) = 3 /\ leaf_count(Tree) = 3
    /\ \E i, j \in 1..3 : has_leaf(store, last.keys[i]) /\ ~has_leaf(store, last.keys[j])
    /\ last.compiled.ok
    /\ verify(last.compiled.value, root, reversed(leaves_of(Tree, last.keys))) = Ok(TRUE)

\* C3 (SpecProof): with a proof of K for the current tree, verify returns
\* false when one leaf of K is given a value that differs from the one the
\* tree holds (zero for nonzero and nonzero for zero included), and does not
\* return true when one leaf of K is replaced by the pair (k, v) of another
\* key k whose value in the tree is not v.
TamperResistance ==
    (last.op = "merkle_proof" /\ last.compiled.ok) =>
        LET leaves == leaves_of(Tree, last.keys)
        IN  \A i \in 1..Len(leaves) :
              /\ \A v \in Values \ {leaves[i][2]} :
                    verify(last.compiled.value, root,
                           with_leaf(leaves, i, <<leaves[i][1], v>>)) = Ok(FALSE)
              /\ \A k \in Keys, v \in Values :
                    (k \notin {last.keys[j] : j \in 1..Len(leaves)} /\ v # get(Tree, k))
                    => verify(last.compiled.value, root,
                              with_leaf(leaves, i, <<k, v>>)) # Ok(TRUE)

\* C4 (SpecProof): the compiled proof of one key k, present or absent,
\* computes from (k, v) the root that update(k, v) gives the tree, for every
\* value v.
ProofPredictsUpdate ==
    (last.op = "merkle_proof" /\ Len(last.keys) = 1 /\ last.compiled.ok) =>
        \A v \in Values :
            compute_root(last.compiled.value, <<<<last.keys[1], v>>>>)
                = Ok(update(Tree, last.keys[1], v).root)

\* the proof of an absent key of a tree of two leaves predicts the root of
\* its insertion
ProofPredictsUpdateWitness ==
    /\ last.op = "merkle_proof" /\ Len(last.keys) = 1 /\ leaf_count(Tree) = 2
    /\ ~has_leaf(store, last.keys[1])
    /\ last.compiled.ok
    /\ update(Tree, last.keys[1], Word(2)).root # root
    /\ compute_root(last.compiled.value, <<<<last.keys[1], Word(2)>>>>)
           = Ok(update(Tree, last.keys[1], Word(2)).root)

\* C5 (SpecProof): for every non-empty selection K' of the keys K of a
\* compiled proof, extract_proof returns the code that compiling
\* merkle_proof(K') returns, and that code verifies against the root with the
\* pairs of K'.
SubProofExtraction ==
    (last.op = "merkle_proof" /\ last.compiled.ok) =>
        \A mask \in (SUBSET (1..Len(last.keys))) \ {{}} :
            LET leaves == leaves_of(Tree, last.keys)
                all_leaves == [i \in 1..Len(leaves) |->
                                  <<leaves[i][1], leaves[i][2], i \in mask>>]
                sub_keys == pick(last.keys, mask, 1)
                sub_proof == extract_proof(last.compiled.value, all_leaves)
                direct == merkle_proof(Tree, sub_keys)
            IN  /\ sub_proof.ok
                /\ direct.ok
                /\ compile(direct.value, sub_keys) = sub_proof
                /\ verify(sub_proof.value, root, pick(leaves, mask, 1)) = Ok(TRUE)

\* a sub-proof of two keys has been extracted from a proof of three keys of
\* a tree of three leaves, and differs from the proof it was taken from
SubProofExtractionWitness ==
    /\ last.op = "merkle_proof" /\ Len(last.keys) = 3 /\ leaf_count(Tree) = 3
    /\ last.compiled.ok
    /\ LET leaves == leaves_of(Tree, last.keys)
           all_leaves == [i \in 1..3 |-> <<leaves[i][1], leaves[i][2], i # 2>>]
           sub_proof == extract_proof(last.compiled.value, all_leaves)
       IN  /\ sub_proof.ok
           /\ sub_proof # last.compiled
           /\ verify(sub_proof.value, root, pick(leaves, {1, 3}, 1)) = Ok(TRUE)


\* the byte strings 50 48 4C, 48 4C, 4C 50 and 4C 48
CrashPrograms ==
    {<<Byte(OP_P), Byte(OP_H), Byte(OP_L)>>, <<Byte(OP_H), Byte(OP_L)>>,
     <<Byte(OP_L), Byte(OP_P)>>, <<Byte(OP_L), Byte(OP_H)>>}

\* the machine when the loop over the op codes ends, before the final checks
run_only(proof, leaves) == run(NoCallback, new_machine, proof, sort_leaves(leaves))

\* C11 (SpecVerify): for every byte string and every list of leaves the
\* interpreter ends with Ok or a typed Err and never panics, in a build with
\* debug assertions as in one without; a program that makes the stack
\* grow past MAX_STACK_SIZE, an unknown op code, an operand cut short and a
\* pop from the empty stack give Err, and so do 50 48 4C, 48 4C, 4C 50 and
\* 4C 48, alone or followed by a zero word.
VerifierRobustness ==
    last.op = "compute_root" =>
        /\ ~last.m.assert_failed
        /\ last.m.err \in {"", "CorruptedStack", "CorruptedProof", "InvalidCode"}
        /\ (\E i \in 1..Len(run_only(last.proof, last.leaves).stack) : i > MAX_STACK_SIZE)
               => last.m.err # ""
        /\ (Len(last.proof) > 0 /\ last.proof[1] # Byte(OP_L)) => last.m.err # ""
        /\ (\E c \in CrashPrograms, tail \in {<<>>, <<Byte(0)>>} : last.proof = c \o tail)
               => last.m.err # ""

\* C12 (SpecVerify): compute_root returns a root exactly when the loop over
\* the op codes ends without an error with one entry on the stack, of height
\* 256, and every leaf consumed; a program that starts with more L than there
\* are leaves returns Err.
FinalStateChecks ==
    last.op = "compute_root" =>
        LET r == run_only(last.proof, last.leaves)
        IN  /\ compute_root(last.proof, last.leaves).ok
                <=> (/\ r.err = ""
                     /\ Len(r.stack) = 1
                     /\ r.stack[1][1] = NumLevels
                     /\ r.leaf_index = Len(last.leaves) + 1)
            /\ (\E k \in 1..Len(last.proof) :
                    /\ k > Len(last.leaves)
                    /\ \A i \in 1..k : last.proof[i] = Byte(OP_L))
                => ~compute_root(last.proof, last.leaves).ok

\* the program has ended with one entry of height 256 on the stack and a leaf
\* left over, and Err is returned
FinalStateChecksWitness ==
    /\ last.op = "compute_root"
    /\ LET r == run_only(last.proof, last.leaves)
       IN  /\ r.err = "" /\ Len(r.stack) = 1 /\ r.stack[1][1] = NumLevels
           /\ r.leaf_index <= Len(last.leaves)
    /\ ~compute_root(last.proof, last.leaves).ok
    /\ last.m.err = "CorruptedProof"

\* the program is L Q with the three operands of Q, and there is a leaf
runs_L_Q ==
    /\ last.op = "compute_root" /\ Len(last.proof) = 5 /\ Len(last.leaves) >= 1
    /\ last.proof[1] = Byte(OP_L) /\ last.proof[2] = Byte(OP_Q)

\* the sibling that Q reads from the program L Q
Q_sibling ==
    MergeWithZero(H256_from(last.proof[4]), bits_from(last.proof[5]),
                  code_of(last.proof[3]))

\* the node that L Q pushes when the sibling of the first leaf is `sibling`
Q_parent(sibling) ==
    merge_sibling(0, sort_leaves(last.leaves)[1][1],
                  from_h256(sort_leaves(last.leaves)[1][2]), sibling)

\* C19 (SpecVerify), as stated: is_zero is true of Value(zero) only; a
\* MergeWithZero is never zero, whatever its base_node, and Q with an all-zero
\* base_node is merged as a nonzero sibling.
MergeWithZeroNeverZero ==
    /\ \A v \in Values : is_zero(Value(v)) <=> H256_is_zero(v)
    /\ runs_L_Q =>
          /\ ~is_zero(Q_sibling)
          /\ last.m.stack[1][3] # Q_parent(zero)

\* C19 (SpecVerify), amended: is_zero is true of Value(zero) and of a
\* MergeWithZero whose base_node is all zero, of no other Value or
\* MergeWithZero; Q with an all-zero base_node is merged as the zero sibling.
MergeWithZeroZeroBase ==
    /\ \A v \in Values : is_zero(Value(v)) <=> H256_is_zero(v)
    /\ runs_L_Q =>
          /\ is_zero(Q_sibling) <=> H256_is_zero(H256_from(last.proof[4]))
          /\ H256_is_zero(H256_from(last.proof[4]))
                => last.m.stack[1][3] = Q_parent(zero)
          /\ ~H256_is_zero(H256_from(last.proof[4]))
                => last.m.stack[1][3] # Q_parent(zero)

\* L Q has run with an all-zero base_node next to a nonzero leaf, and has
\* pushed the merge of the leaf with zero
MergeWithZeroZeroBaseWitness ==
    /\ runs_L_Q
    /\ H256_is_zero(H256_from(last.proof[4]))
    /\ ~H256_is_zero(sort_leaves(last.leaves)[1][2])
    /\ Len(last.m.stack) = 1
    /\ last.m.stack[1][3] = Q_parent(zero)
    /\ ~is_zero(last.m.stack[1][3])

\* C20 (SpecVerify): H on two entries of equal height whose parent paths
\* differ fails with NonSiblings.
NonSiblingsError ==
    (/\ last.op = "compute_root"
     /\ last.proof = <<Byte(OP_L), Byte(OP_L), Byte(OP_H)>>
     /\ Len(last.leaves) >= 2
     /\ parent_path(sort_leaves(last.leaves)[1][1], 0)
            # parent_path(sort_leaves(last.leaves)[2][1], 0))
    => last.m.err = "NonSiblings"


(***************************************************************************)
(* C13  Root invariant: after every successful update or update_all the    *)
(* cached root is merge(255, zero key, B.left, B.right).hash() for the     *)
(* branch B persisted at (255, zero key), and zero when no such branch is  *)
(* persisted; so new_with_store on the tree's store gives the same root.   *)
(***************************************************************************)
RootInvariant ==
    LET root_branch_key == BranchKey(MaxHeight, 0)
    IN  /\ has_branch(store, root_branch_key) =>
               root = hash(merge(MaxHeight, 0,
                                 get_branch(store, root_branch_key).left,
                                 get_branch(store, root_branch_key).right))
        /\ ~has_branch(store, root_branch_key) => root = H256_zero
        /\ new_with_store(store).root = root

\* an update_all has left a tree whose root branch holds two nonzero children
RootInvariantWitness ==
    /\ last.op = "update_all_mixed"
    /\ last.len = MaxBatch - 1
    /\ has_branch(store, BranchKey(MaxHeight, 0))
    /\ ~is_zero(get_branch(store, BranchKey(MaxHeight, 0)).left)
    /\ ~is_zero(get_branch(store, BranchKey(MaxHeight, 0)).right)
    /\ new_with_store(store).root = root
    /\ root # H256_zero

\* the keys whose last written value is nonzero
nonzero_keys == {k \in Keys : ~H256_is_zero(to_h256(written[k]))}

(***************************************************************************)
(* C14  Mainline tree: after any sequence of update and update_all calls   *)
(* from the empty tree, a branch (h, p) is persisted iff some key with a   *)
(* nonzero value has parent_path(h) = p; so no persisted branch has both   *)
(* children zero, a tree with one nonzero leaf has exactly 256 branches    *)
(* (one per height), and once every key is back to zero the branch map is  *)
(* empty.                                                                  *)
(***************************************************************************)
BranchPersistence ==
    /\ DOMAIN store.branches_map =
           {BranchKey(h, parent_path(k, h)) : h \in Heights, k \in nonzero_keys}
    /\ \A bk \in DOMAIN store.branches_map :
           ~(is_zero(get_branch(store, bk).left) /\ is_zero(get_branch(store, bk).right))
    /\ Cardinality(nonzero_keys) = 1 =>
           Cardinality(DOMAIN store.branches_map) = NumLevels
    /\ nonzero_keys = {} => store.branches_map = EmptyMap

\* an update_all has set the last nonzero keys back to zero, and the branch
\* map is empty again
BranchPersistenceWitness ==
    /\ last.op = "update_all_mixed"
    /\ last.deletes
    /\ nonzero_keys = {}
    /\ store.branches_map = EmptyMap

(***************************************************************************)
(* C15  After any sequence of successful update and update_all calls from  *)
(* the empty tree, the leaf map contains key k iff the value last written  *)
(* to k has a nonzero to_h256(), and then it holds exactly that value.     *)
(***************************************************************************)
LeafPersistence ==
    /\ DOMAIN store.leaves_map = nonzero_keys
    /\ \A k \in DOMAIN store.leaves_map : get_leaf(store, k) = written[k]

\* an update_all of two pairs has removed a leaf, and the tree holds a leaf
\* with the second nonzero value
LeafPersistenceWitness ==
    /\ last.op = "update_all_mixed"
    /\ last.len = MaxBatch - 1
    /\ last.deletes
    /\ \E k \in LeafKeys : has_leaf(store, k) /\ get_leaf(store, k) = Word(NumValues)
    /\ \E k \in LeafKeys : ~has_leaf(store, k) /\ H256_is_zero(written[k])


(***************************************************************************)
(* C16  If a store operation returns an error during update or update_all  *)
(* of the mainline tree, the call returns that error and the cached root   *)
(* of the tree is the same as before the call.                             *)
(***************************************************************************)
StoreErrorKeepsRoot ==
    last.op = "store_error" => root = last.root_before

\* an update_all on a tree with leaves has written part of its changes to
\* the store before a branch write returned Err
StoreErrorKeepsRootWitness ==
    /\ last.op = "store_error"
    /\ last.call = "update_all"
    /\ last.err[1] = "insert_branch"
    /\ last.changed
    /\ root = last.root_before
    /\ root # H256_zero


(***************************************************************************)
(* C17  The trie variant commits to the same root as the mainline tree:    *)
(* for every sequence of update calls applied to an empty tree, both end   *)
(* with the same root, for every key, keys whose bit 255 is set included.  *)
(***************************************************************************)
TrieRootEquivalence ==
    trie.root = root

(***************************************************************************)
(* C18  Trie variant: after inserting any set of pairs with distinct keys  *)
(* (keys that differ only in bit 0 included) and then updating every       *)
(* inserted key to the zero value, the branch map is empty and the root is *)
(* zero; no branch with two zero children stays persisted.                 *)
(***************************************************************************)
TrieDeleteAllEmpties ==
    /\ nonzero_keys = {} =>
           trie.store.branches_map = EmptyMap /\ trie.root = H256_zero
    /\ \A bk \in DOMAIN trie.store.branches_map :
           ~(is_zero(get_branch(trie.store, bk).left)
               /\ is_zero(get_branch(trie.store, bk).right))


(***************************************************************************)
(* C21  Computing a root from an empty compiled proof (no opcode bytes)    *)
(* with a non-empty list of leaves returns the error EmptyProof.           *)
(***************************************************************************)
EmptyProofError ==
    (/\ last.op = "compute_root"
     /\ Len(last.proof) = 0
     /\ Len(last.leaves) > 0)
    => last.m.err = "EmptyProof"


(***************************************************************************)
(* C22  merkle_proof is deterministic in the leaf set and the key set: two *)
(* trees holding the same key-to-value mapping, reached by different       *)
(* orders of update, return equal MerkleProof values (leaves_bitmap and    *)
(* merkle_path) for the same keys, and the result does not depend on the   *)
(* order in which the keys are passed.                                     *)
(***************************************************************************)
ProofDeterminism ==
    last.op = "merkle_proof" =>
        /\ last.proof.ok
        /\ merkle_proof(insert_ascending(DefaultTree, written, 0), last.keys)
               = last.proof
        /\ \A f \in Permutations(1..Len(last.keys)) :
               merkle_proof(Tree, [i \in 1..Len(last.keys) |-> last.keys[f[i]]])
                   = last.proof

\* a proof of three keys with a sibling on its path, of a tree of two leaves
\* or more
ProofDeterminismWitness ==
    /\ last.op = "merkle_proof"
    /\ Len(last.keys) = MaxProofKeys
    /\ last.proof.ok
    /\ Len(last.proof.value.merkle_path) > 0
    /\ leaf_count(Tree) >= 2
    /\ \E i \in 1..Len(last.keys) : ~has_leaf(store, last.keys[i])


(***************************************************************************)
(* C23  Access to history: let r be the root returned at some point of a   *)
(* sequence of updates and S the store after the later updates of that     *)
(* sequence; the tree SparseMerkleTree::new(r, S) answers get(k) with the  *)
(* value k had when the root was r (zero if k was absent then), and        *)
(* merkle_proof([k]) from it verifies against r with that value.  Here r   *)
(* is the root before the last update and S the store after it.            *)
(***************************************************************************)
HistoryAccess ==
    last.op = "update" =>
        \A k \in Keys :
            LET old == SparseMerkleTree(last.pre.root, store)
                v == get(last.pre, k)
                p == merkle_proof(old, <<k>>)
                c == IF p.ok THEN compile(p.value, <<k>>) ELSE p
            IN  /\ get(old, k) = v
                /\ p.ok
                /\ c.ok
                /\ verify(c.value, last.pre.root, <<<<k, v>>>>) = Ok(TRUE)


ShortCutAbbreviatesChain ==
    (last.op = "merge" /\ last.from_leaf /\ last.len <= MaxHeight) =>
        LET sc == shortcut(last.key, last.leaf.value, last.len)
            with_zero(node) ==
                IF is_right(last.key, MaxHeight)
                THEN merge(MaxHeight, parent_path(last.key, MaxHeight), zero, node)
                ELSE merge(MaxHeight, parent_path(last.key, MaxHeight), node, zero)
        IN  /\ hash(sc) = hash(last.node)
            /\ last.len = MaxHeight => with_zero(sc) = with_zero(last.node)


(***************************************************************************)
(* C25  Updates are not atomic over the store: if a store write fails      *)
(* partway through update of the mainline tree, the writes already made    *)
(* stay, so a state is reachable in which update returned Err, the root is *)
(* unchanged, and for some key k the proof compile(merkle_proof([k])) with *)
(* the stored value get(k) no longer verifies against the root.  Such a    *)
(* state follows every Err that comes after the leaf write of an update    *)
(* that changes the value of its key in a non-empty tree.                  *)
(***************************************************************************)
UpdateNotAtomic ==
    (last.op = "store_error" /\ last.call = "update") =>
        LET p == merkle_proof(Tree, <<last.key>>)
            c == IF p.ok THEN compile(p.value, <<last.key>>) ELSE p
        IN  /\ root = last.root_before
            /\ (/\ last.err[1] \notin {"insert_leaf", "remove_leaf"}
                /\ root # H256_zero
                /\ last.old # last.value)
               => /\ get(Tree, last.key) = last.value
                  /\ c.ok
                  /\ verify(c.value, root, <<<<last.key, get(Tree, last.key)>>>>)
                         = Ok(FALSE)

\* update returned Err at a branch write above height 0, after the leaf and a
\* branch were written: the root is the old one and the proof of the key with
\* its stored value does not verify
UpdateNotAtomicWitness ==
    /\ last.op = "store_error"
    /\ last.call = "update"
    /\ last.err[1] = "insert_branch"
    /\ last.err[2][1] > 0
    /\ last.changed
    /\ root = last.root_before
    /\ root # H256_zero
    /\ get(Tree, last.key) # last.old
    /\ LET p == merkle_proof(Tree, <<last.key>>)
       IN  /\ p.ok
           /\ verify(compile(p.value, <<last.key>>).value, root,
                     <<<<last.key, get(Tree, last.key)>>>>) = Ok(FALSE)


(***************************************************************************)
(* C26  merkle_proof of the mainline tree never panics on a non-empty key  *)
(* list: for every non-empty list of keys, lists with repeated keys        *)
(* included, the fork-height stack never holds more than MAX_STACK_SIZE    *)
(* entries during the walk and holds exactly one entry when the walk ends  *)
(* (the final assert_eq!(stack_top, 1) holds).                             *)
(***************************************************************************)
ProofNeverPanics ==
    last.op = "merkle_proof" => last.proof.ok


(***************************************************************************)
(* C27  update_all of the mainline tree never reaches panic!("children     *)
(* nodes not all filled") and never unwraps a missing parent entry: for    *)
(* every input list (repeated keys, sibling keys and zero values           *)
(* included), when a delta-tree branch is processed in (height, key) order *)
(* both of its children are already filled and, below height 255, its      *)
(* parent entry exists.                                                    *)
(***************************************************************************)
UpdateAllNeverPanics ==
    last.op = "update_all" => ~last.panicked

\* an update_all of a full list that writes a key twice and deletes a leaf of
\* the tree has returned
UpdateAllNeverPanicsWitness ==
    /\ last.op = "update_all"
    /\ last.len = MaxBatch
    /\ last.repeats
    /\ last.deletes
    /\ last.pre_leaves > 0
    /\ ~last.panicked
    /\ root # H256_zero


\* the trie built from the empty one by inserting the nonzero pairs of w in
\* the order of the list keys
RECURSIVE trie_insert_each(_, _, _, _)
trie_insert_each(tree, w, keys, i) ==
    IF i > Len(keys) THEN tree
    ELSE trie_insert_each(IF H256_is_zero(w[keys[i]]) THEN tree
                          ELSE trie_update(tree, keys[i], w[keys[i]]),
                          w, keys, i + 1)

(***************************************************************************)
(* C29  Trie variant: inserting the same set of pairs with distinct keys   *)
(* into an empty tree yields the same branch map for every insertion       *)
(* order.  The order the state was reached by is compared with the         *)
(* ascending and the descending key order.                                 *)
(***************************************************************************)
TrieOrderIndependence ==
    LET ascending == [i \in 1..Cardinality(Keys) |-> i - 1]
    IN  /\ trie.store.branches_map
               = trie_insert_each(DefaultTree, written, ascending, 1).store.branches_map
        /\ trie.store.branches_map
               = trie_insert_each(DefaultTree, written, reversed(ascending), 1)
                     .store.branches_map

\* three leaves, the last one inserted below the others, and a shortcut
\* stored above height 0 beside a merged subtree
TrieOrderIndependenceWitness ==
    /\ last.op = "trie_update"
    /\ Cardinality(nonzero_keys) = MaxLeaves
    /\ \A k \in nonzero_keys : last.key <= k
    /\ \E bk \in DOMAIN trie.store.branches_map :
          /\ bk[1] > 0
          /\ bk[1] < MaxHeight
          /\ is_shortcut(get_branch(trie.store, bk).right)
          /\ ~is_zero(get_branch(trie.store, bk).left)


(***************************************************************************)
(* C30  Zero-run encoding: compile emits a run of n consecutive zero       *)
(* siblings (1 <= n <= 256) as opcode 0x4F followed by the byte n mod 256, *)
(* and the interpreter executes operand 0 as 256 merges with zero; an O    *)
(* whose run would merge at a height above 255 returns CorruptedProof.  So *)
(* the proof of one key in the empty tree is the three bytes 4C 4F 00, it  *)
(* computes the zero root for a zero value and a nonzero root for a        *)
(* nonzero value.  Stated for the proofs of one key: the runs are the      *)
(* maximal runs of clear bits of the key's bitmap.                         *)
(***************************************************************************)
ZeroRunEncoding ==
    (last.op = "merkle_proof" /\ Len(last.keys) = 1) =>
        LET k == last.keys[1]
            bitmap == last.proof.value.leaves_bitmap[1]
            c == last.compiled.value
            runs == {r \in Heights \X Heights :
                        /\ r[1] <= r[2]
                        /\ \A h \in r[1]..r[2] : ~get_bit(bitmap, h)
                        /\ r[1] = 0 \/ get_bit(bitmap, r[1] - 1)
                        /\ r[2] = MaxHeight \/ get_bit(bitmap, r[2] + 1)}
            operand(r) == Byte((r[2] - r[1] + 1) % NumLevels)
            O_at == {i \in 1..Len(c) : c[i] = Byte(OP_O)}
        IN  /\ last.proof.ok
            /\ last.compiled.ok
            /\ Cardinality(O_at) = Cardinality(runs)
            /\ \A i \in O_at : i < Len(c) /\ \E r \in runs : c[i + 1] = operand(r)
            /\ \A r \in runs : \E i \in O_at : c[i + 1] = operand(r)
            /\ bitmap = 0 =>
                   /\ c = <<Byte(OP_L), Byte(OP_O), Byte(0)>>
                   /\ compute_root(c, <<<<k, H256_zero>>>>) = Ok(H256_zero)
                   /\ \A v \in Values \ {H256_zero} :
                          /\ compute_root(c, <<<<k, v>>>>)
                                 = Ok(update(DefaultTree, k, v).root)
                          /\ compute_root(c, <<<<k, v>>>>) # Ok(H256_zero)
            /\ compute_root(c \o <<Byte(OP_O), Byte(1)>>, <<<<k, get(Tree, k)>>>>)
                   = Err("CorruptedProof")
            /\ compute_root(<<Byte(OP_L), Byte(OP_O), Byte(MaxHeight),
                              Byte(OP_O), Byte(MaxHeight)>>, <<<<k, get(Tree, k)>>>>)
                   = Err("CorruptedProof")

\* the proof of the only key of a tree is 4C 4F 00 and computes the root
\* from the value of the key
ZeroRunEncodingWitness ==
    /\ last.op = "merkle_proof"
    /\ last.keys = <<5>>
    /\ DOMAIN store.leaves_map = {5}
    /\ last.compiled.ok
    /\ last.compiled.value = <<Byte(OP_L), Byte(OP_O), Byte(0)>>
    /\ root # H256_zero
    /\ compute_root(last.compiled.value, <<<<5, get(Tree, 5)>>>>) = Ok(root)

=============================================================================
